---- MODULE Spec2Model ----
(***************************************************************************)
(* A model of sudoku-dlx (src/sudoku.c): the dancing-links matrix that     *)
(* solve_puzzle builds for a puzzle, the clue pre-covering, and the        *)
(* recursive search dlx_solve, unfolded into one step per stretch of       *)
(* dlx_solve between two recursive calls, with the call stack explicit.    *)
(*                                                                         *)
(* Objects are numbered as the code lays them out in the one array it      *)
(* allocates: 0 is the root header, 1 .. 4*N*N are the column headers,     *)
(* the row objects follow, four per choice, in creation order.  A pointer  *)
(* is the index of the object it points to.                                *)
(***************************************************************************)
EXTENDS Integers, Sequences, FiniteSets, TLC

-----------------------------------------------------------------------------
(* Bounds of the model *)

\* No side length above this one is explored.
MaxSize == 4

\* A puzzle differs from the reference grid of its size in at most this many
\* cells,
MaxEdits == 2

\* all of them among the first EditCells cells of the grid.
EditCells == 7

\* dlx_solve is not followed deeper than this many nested invocations.
MaxDepth == 45

\* solve_puzzle is called at most this many times on one puzzle.
MaxCalls == 2

\* A token of the puzzle file that replaces one of a well-formed file has at
\* most this many characters.
MaxTokenLen == 2

-----------------------------------------------------------------------------
(* Sizes and layout: solve_puzzle, lines 245-257 *)

NumCells(n) == n * n

NumConstraints(n) == 4 * NumCells(n)

NumChoices(n) == NumCells(n) * n

NumObjects(n) == NumChoices(n) * 4 + NumConstraints(n) + 1

\* The root header: the first object of the array.
Header == 0

\* A field malloc left unset.
Uninit == -1

LastConstraint(n) == Header + NumConstraints(n)

Objects(n) == 0 .. (NumObjects(n) - 1)

Columns(n) == 1 .. NumConstraints(n)

RowObjects(n) == (LastConstraint(n) + 1) .. (NumObjects(n) - 1)

Cells(n) == 0 .. (NumCells(n) - 1)

\* int block_size = sqrt(puzzle_size), truncated.
BlockSizeOf(n) == CHOOSE s \in 0 .. n : s * s <= n /\ (s + 1) * (s + 1) > n

\* issquare
IsSquare(x) == BlockSizeOf(x) * BlockSizeOf(x) = x

kMaxPuzzleSize == 256

\* The side lengths read_puzzle accepts, lines 147-149, up to MaxSize.
Sizes == {n \in 1 .. MaxSize : n <= kMaxPuzzleSize /\ IsSquare(n)}

-----------------------------------------------------------------------------
(* Building the matrix: solve_puzzle, lines 254-317 *)

\* The function f held as a table of its values (the same function).
Table(f) == f @@ <<>>

\* F applied to the value of x: x is evaluated once, before F is.
Then(x, F(_)) == CHOOSE y \in {F(v) : v \in {x}} : TRUE

\* The array as xmalloc returns it, and then the column header loop.
BuildHeaders(n) ==
    LET last == LastConstraint(n)
    IN  [ left   |-> Table([o \in Objects(n) |->
                        IF o = Header THEN last
                        ELSE IF o \in Columns(n) THEN o - 1 ELSE Uninit]),
          right  |-> Table([o \in Objects(n) |->
                        IF o = Header THEN Header + 1
                        ELSE IF o = last THEN Header
                        ELSE IF o \in Columns(n) THEN o + 1 ELSE Uninit]),
          up     |-> Table([o \in Objects(n) |-> Uninit]),
          down   |-> Table([o \in Objects(n) |-> Uninit]),
          column |-> Table([o \in Objects(n) |->
                        IF o \in Columns(n) THEN o ELSE Uninit]),
          data   |-> Table([o \in Objects(n) |-> <<Uninit, Uninit, Uninit>>]),
          row_count   |-> Table([c \in Columns(n) |-> n]),
          object_cols |-> Table([i \in 0 .. (NumConstraints(n) - 1) |->
                        Header + 1 + i]) ]

\* The number of objects in the row of a choice, line 299.
RowLength == 4

\* Constraint columns whose fourth is taken for the row of the grid instead of
\* the block.
ConstraintIndicesBlockAsRow(n, r, c, v) ==
    << n * r + c,
       n * r + v - 1,
       n * c + v - 1,
       n * r + v - 1 >>

\* The four constraint columns of the choice (r, c, v), as distances from the header.
ConstraintIndices(n, r, c, v) ==
    LET block_size  == BlockSizeOf(n)
        block_index == r - (r % block_size) + (c \div block_size)
    IN  << n * r + c,
           n * r + v - 1,
           n * c + v - 1,
           n * block_index + v - 1 >>

\* One pass of the innermost loop: object obj becomes the i-th of its row.
LinkObject(b, obj, idx, rcv) ==
    [b EXCEPT !.up[obj]     = b.object_cols[idx],
              !.left[obj]   = obj - 1,
              !.right[obj]  = obj + 1,
              !.column[obj] = Header + 1 + idx,
              !.data[obj]   = rcv,
              !.down[b.object_cols[idx]] = obj,
              !.object_cols[idx] = obj]

\* The row of choice (r, c, v), lines 281-309; it is the k-th row made,
\* k = (r * N + c) * N + (v - 1), and obj stands at its first object.
LinkRow(n, b, r, c, v) ==
    LET start == LastConstraint(n) + 1 + 4 * ((r * n + c) * n + (v - 1))
        idx(i) == i * NumCells(n) + ConstraintIndices(n, r, c, v)[i + 1]
        Link(i, b0) == LinkObject(b0, start + i, idx(i), <<r, c, v>>)
        Close(b4) == [b4 EXCEPT !.left[start] = start + 3, !.right[start + 3] = start]
    IN  Then(Then(Then(Then(Then(b,
            LAMBDA b0 : Link(0, b0)),
            LAMBDA b1 : Link(1, b1)),
            LAMBDA b2 : Link(2, b2)),
            LAMBDA b3 : Link(3, b3)),
            Close)

\* for (int v = 1; v < puzzle_size + 1; v++), line 280.
RECURSIVE LinkValues(_, _, _, _, _)
LinkValues(n, b, r, c, v) ==
    IF v = n + 1 THEN b
    ELSE Then(LinkRow(n, b, r, c, v), LAMBDA b1 : LinkValues(n, b1, r, c, v + 1))

\* for (int c = 0; c < puzzle_size; c++), line 278.
RECURSIVE LinkCells(_, _, _, _)
LinkCells(n, b, r, c) ==
    IF c = n THEN b
    ELSE Then(LinkValues(n, b, r, c, 1), LAMBDA b1 : LinkCells(n, b1, r, c + 1))

\* for (int r = 0; r < puzzle_size; r++), line 277.
RECURSIVE LinkRows(_, _, _)
LinkRows(n, b, r) ==
    IF r = n THEN b
    ELSE Then(LinkCells(n, b, r, 0), LAMBDA b1 : LinkRows(n, b1, r + 1))

\* The closing loop, lines 313-317: the bottom object of each column meets its
\* header.  Each pass writes the fields of one column, so the passes are
\* taken together.
CloseColumns(n, b) ==
    LET bottoms == {b.object_cols[i] : i \in DOMAIN b.object_cols}
    IN  [b EXCEPT !.down = Table([o \in Objects(n) |->
                                IF o \in bottoms THEN b.column[o] ELSE b.down[o]]),
                  !.up   = Table([o \in Objects(n) |->
                                IF o \in Columns(n) THEN b.object_cols[o - 1]
                                ELSE b.up[o]])]

BuildLinks(n) ==
    Then(Then(BuildHeaders(n), LAMBDA b0 : LinkRows(n, b0, 0)),
         LAMBDA b1 : CloseColumns(n, b1))

\* The structure solve_puzzle has linked at line 318, for each size.
Built == Table([n \in Sizes |-> BuildLinks(n)])

\* o->column and *(DLXRowData*) o->data never change after the build.
ColumnOf(n, o) == Built[n].column[o]

RowDataOf(n, o) == Built[n].data[o]

\* The fields cover and uncover work on.
BuiltMatrix(n) ==
    [ left |-> Built[n].left, right |-> Built[n].right,
      up |-> Built[n].up, down |-> Built[n].down,
      row_count |-> Built[n].row_count, fault |-> FALSE, log |-> <<>> ]

-----------------------------------------------------------------------------
(* cover_column and uncover_column, lines 180-202 *)

\* A traversal that has not come back to its start after this many steps never will.
Fuel(n) == NumObjects(n) + 1

\* An unlinking that also clears the up pointer of the object it removes.
UnlinkObjectClearingUp(n, m, j) ==
    Then(Then([m EXCEPT !.up[m.down[j]] = m.up[j]],
              LAMBDA m1 : [m1 EXCEPT !.down[m1.up[j]] = m1.down[j]]),
         LAMBDA m2 : [m2 EXCEPT !.row_count[ColumnOf(n, j)] = @ - 1, !.up[j] = j])

\* Lines 185-187, for one object j.
UnlinkObject(n, m, j) ==
    Then(Then([m EXCEPT !.up[m.down[j]] = m.up[j]],
              LAMBDA m1 : [m1 EXCEPT !.down[m1.up[j]] = m1.down[j]]),
         LAMBDA m2 : [m2 EXCEPT !.row_count[ColumnOf(n, j)] = @ - 1])

\* Lines 195-197, for one object j.
RelinkObject(n, m, j) ==
    Then(Then([m EXCEPT !.row_count[ColumnOf(n, j)] = @ + 1],
              LAMBDA m1 : [m1 EXCEPT !.up[m1.down[j]] = j]),
         LAMBDA m2 : [m2 EXCEPT !.down[m2.up[j]] = j])

\* A pointer the loops can follow: an object whose links are set.
Followable(n, m, o) ==
    /\ o \in Objects(n)
    /\ m.left[o] \in Objects(n) /\ m.right[o] \in Objects(n)
    /\ m.up[o] \in Objects(n) /\ m.down[o] \in Objects(n)
    /\ ColumnOf(n, o) \in Columns(n)

\* The run cannot be followed further: a loop that never ends, or a wild pointer.
Fault(m) == [m EXCEPT !.fault = TRUE]

\* A call of cover_column or uncover_column on column c is noted in the log.
Logged(m, call, c) == [m EXCEPT !.log = Append(@, <<call, c>>)]

\* The matrix with the log of calls emptied.
Unlogged(m) == [m EXCEPT !.log = <<>>]

\* The inner loop of cover_column: for (j = i->right; j != i; j = j->right).
RECURSIVE CoverRowLoop(_, _, _, _, _)
CoverRowLoop(n, m, i, j, fuel) ==
    IF j = i THEN m
    ELSE IF fuel = 0 \/ ~Followable(n, m, j) THEN Fault(m)
    ELSE Then(UnlinkObject(n, m, j),
              LAMBDA m1 : CoverRowLoop(n, m1, i, m1.right[j], fuel - 1))

\* The outer loop of cover_column: for (i = c->down; i != c; i = i->down).
RECURSIVE CoverLoop(_, _, _, _, _)
CoverLoop(n, m, c, i, fuel) ==
    IF i = c \/ m.fault THEN m
    ELSE IF fuel = 0 \/ ~Followable(n, m, i) THEN Fault(m)
    ELSE Then(CoverRowLoop(n, m, i, m.right[i], Fuel(n)),
              LAMBDA m1 : CoverLoop(n, m1, c, m1.down[i], fuel - 1))

cover_column(n, m, c) ==
    IF m.fault \/ c \notin Objects(n) \/ m.down[c] = Uninit
    THEN Fault(m)
    ELSE Then(Then(Then(Logged(m, "cover", c),
                        LAMBDA m0 : [m0 EXCEPT !.left[m0.right[c]] = m0.left[c]]),
                   LAMBDA m1 : [m1 EXCEPT !.right[m1.left[c]] = m1.right[c]]),
              LAMBDA m2 : CoverLoop(n, m2, c, m2.down[c], Fuel(n)))

\* The inner loop of uncover_column: for (j = i->left; j != i; j = j->left).
RECURSIVE UncoverRowLoop(_, _, _, _, _)
UncoverRowLoop(n, m, i, j, fuel) ==
    IF j = i THEN m
    ELSE IF fuel = 0 \/ ~Followable(n, m, j) THEN Fault(m)
    ELSE Then(RelinkObject(n, m, j),
              LAMBDA m1 : UncoverRowLoop(n, m1, i, m1.left[j], fuel - 1))

\* The outer loop of uncover_column: for (i = c->up; i != c; i = i->up).
RECURSIVE UncoverLoop(_, _, _, _, _)
UncoverLoop(n, m, c, i, fuel) ==
    IF i = c \/ m.fault THEN m
    ELSE IF fuel = 0 \/ ~Followable(n, m, i) THEN Fault(m)
    ELSE Then(UncoverRowLoop(n, m, i, m.left[i], Fuel(n)),
              LAMBDA m1 : UncoverLoop(n, m1, c, m1.up[i], fuel - 1))

\* Lines 200-201, once the loops are through.
RelinkHeader(m, c) ==
    IF m.fault THEN m
    ELSE Then([m EXCEPT !.left[m.right[c]] = c],
              LAMBDA m1 : [m1 EXCEPT !.right[m1.left[c]] = c])

uncover_column(n, m, c) ==
    IF m.fault \/ c \notin Objects(n) \/ m.up[c] = Uninit
    THEN Fault(m)
    ELSE Then(Then(Logged(m, "uncover", c),
                   LAMBDA m0 : UncoverLoop(n, m0, c, m0.up[c], Fuel(n))),
              LAMBDA m1 : RelinkHeader(m1, c))

\* for (j = r->right; j != r; j = j->right) cover_column(j->column), lines 233-234
\* and 329-330.
RECURSIVE CoverRowColumns(_, _, _, _, _)
CoverRowColumns(n, m, r, j, fuel) ==
    IF j = r \/ m.fault THEN m
    ELSE IF fuel = 0 \/ ~Followable(n, m, j) THEN Fault(m)
    ELSE Then(cover_column(n, m, ColumnOf(n, j)),
              LAMBDA m1 : CoverRowColumns(n, m1, r, m1.right[j], fuel - 1))

\* An uncovering of the columns of row r in the order they were covered in:
\* it walks right from r.
RECURSIVE UncoverRightward(_, _, _, _, _)
UncoverRightward(n, m, r, j, fuel) ==
    IF j = r \/ m.fault THEN m
    ELSE IF fuel = 0 \/ ~Followable(n, m, j) THEN Fault(m)
    ELSE Then(uncover_column(n, m, ColumnOf(n, j)),
              LAMBDA m1 : UncoverRightward(n, m1, r, m1.right[j], fuel - 1))

UncoverRowColumnsInCoverOrder(n, m, r, j, fuel) ==
    UncoverRightward(n, m, r, m.right[r], fuel)

\* for (j = r->left; j != r; j = j->left) uncover_column(j->column), lines 237-238.
RECURSIVE UncoverRowColumns(_, _, _, _, _)
UncoverRowColumns(n, m, r, j, fuel) ==
    IF j = r \/ m.fault THEN m
    ELSE IF fuel = 0 \/ ~Followable(n, m, j) THEN Fault(m)
    ELSE Then(uncover_column(n, m, ColumnOf(n, j)),
              LAMBDA m1 : UncoverRowColumns(n, m1, r, m1.left[j], fuel - 1))

-----------------------------------------------------------------------------
(* Clue pre-covering: solve_puzzle, lines 320-333 *)

\* The first object of the row of choice (r, c, v), line 325.
DlxRow(n, r, c, v) == LastConstraint(n) + 1 + 4 * (NumCells(n) * r + n * c + v - 1)

\* A pre-covering that covers the column of the row's first object only.
CoverClueFirstColumnOnly(n, m, cell, v) ==
    cover_column(n, m, ColumnOf(n, DlxRow(n, cell \div n, cell % n, v)))

\* The body of the loops for one cell whose value v is not 0, lines 325-330.
CoverClue(n, m, cell, v) ==
    Then(cover_column(n, m, ColumnOf(n, DlxRow(n, cell \div n, cell % n, v))),
         LAMBDA m1 : CoverRowColumns(n, m1, DlxRow(n, cell \div n, cell % n, v),
                                     m1.right[DlxRow(n, cell \div n, cell % n, v)],
                                     Fuel(n)))

\* for (int c = 0; c < puzzle_size; c++), lines 322-332, in row r.
RECURSIVE CoverCluesOfRow(_, _, _, _, _)
CoverCluesOfRow(n, m, p, r, c) ==
    IF c = n THEN m
    ELSE Then(IF p[r * n + c] # 0 THEN CoverClue(n, m, r * n + c, p[r * n + c]) ELSE m,
              LAMBDA m1 : CoverCluesOfRow(n, m1, p, r, c + 1))

\* for (int r = 0; r < puzzle_size; r++), lines 321-333.
RECURSIVE CoverClues(_, _, _, _)
CoverClues(n, m, p, r) ==
    IF r = n THEN m
    ELSE Then(CoverCluesOfRow(n, m, p, r, 0),
              LAMBDA m1 : CoverClues(n, m1, p, r + 1))

\* The matrix dlx_solve is first called on.
PreparedMatrix(n, p) == Unlogged(CoverClues(n, BuiltMatrix(n), p, 0))

-----------------------------------------------------------------------------
(* Puzzles: what read_puzzle hands to solve_puzzle *)

\* A grid is p->cells[0]: cell (r, c) at index r * N + c, 0 for an empty cell.

RowOfCell(n, i) == i \div n

ColOfCell(n, i) == i % n

BlockOfCell(n, i) ==
    RowOfCell(n, i) - (RowOfCell(n, i) % BlockSizeOf(n)) + (ColOfCell(n, i) \div BlockSizeOf(n))

\* The rows, the columns and the blocks of each size, each as its set of cells.
UnitsOf ==
    Table([n \in Sizes |->
        {{i \in Cells(n) : RowOfCell(n, i) = u} : u \in 0 .. (n - 1)} \cup
        {{i \in Cells(n) : ColOfCell(n, i) = u} : u \in 0 .. (n - 1)} \cup
        {{i \in Cells(n) : BlockOfCell(n, i) = u} : u \in 0 .. (n - 1)}])

Units(n) == UnitsOf[n]

\* The cells other than i that share a row, a column or a block with i.
PeersOf ==
    Table([n \in Sizes |->
        Table([i \in Cells(n) |-> (UNION {u \in UnitsOf[n] : i \in u}) \ {i}])])

\* A completed sudoku: no cell is 0 and every unit holds each value exactly once.
IsCompletedSudoku(n, g) ==
    /\ \A i \in Cells(n) : g[i] \in 1 .. n
    /\ \A u \in Units(n) : \A v \in 1 .. n : Cardinality({i \in u : g[i] = v}) = 1

\* Two clues of p put the same value twice into one unit.
HasConflict(n, p) ==
    \E u \in Units(n) : \E i, k \in u : i # k /\ p[i] # 0 /\ p[i] = p[k]

\* g keeps every clue of p.
KeepsClues(n, p, g) == \A i \in Cells(n) : p[i] # 0 => g[i] = p[i]

\* Value v at cell i repeats no value already placed in a unit of i.
FitsAt(n, g, i, v) == \A k \in PeersOf[n][i] : g[k] # v

\* Every way to fill the empty cells of g from cell i on, by exhaustive trial.
RECURSIVE FillFrom(_, _, _)
FillFrom(n, g, i) ==
    IF i = NumCells(n) THEN {g}
    ELSE IF g[i] # 0 THEN FillFrom(n, g, i + 1)
    ELSE UNION {FillFrom(n, [g EXCEPT ![i] = v], i + 1) :
                    v \in {w \in 1 .. n : FitsAt(n, g, i, w)}}

\* All valid completions of p: the completed sudokus that keep p's clues.
ValidCompletions(n, p) == {g \in FillFrom(n, p, 0) : IsCompletedSudoku(n, g)}

\* One completed grid per size, to derive nearly complete puzzles from.
ReferenceGrid(n) ==
    LET t == IF n = 1 THEN <<1>>
             ELSE << 2, 3, 1, 4,
                     1, 4, 3, 2,
                     4, 1, 2, 3,
                     3, 2, 4, 1 >>
    IN  Table([i \in Cells(n) |-> t[i + 1]])

SmallSubsets(S, k) == {T \in SUBSET S : Cardinality(T) <= k}

\* The grids that differ from the reference grid in at most MaxEdits cells,
\* all among the first EditCells: clues are removed, or replaced by any value.
NearReference(n) ==
    UNION {{Table([i \in Cells(n) |-> IF i \in T THEN f[i] ELSE ReferenceGrid(n)[i]]) :
                f \in [T -> 0 .. n]} :
            T \in SmallSubsets({i \in Cells(n) : i < EditCells}, MaxEdits)}

\* The grid without a clue.
EmptyGrid(n) == Table([i \in Cells(n) |-> 0])

\* The completely filled valid grids.
FullGrids(n) == ValidCompletions(n, EmptyGrid(n))

\* The puzzles explored, for each size.
PuzzlesOf ==
    Table([n \in Sizes |-> NearReference(n) \cup {EmptyGrid(n)} \cup FullGrids(n)])

-----------------------------------------------------------------------------
(* read_puzzle, lines 133-174 *)

\* A token is a sequence of characters without whitespace; a puzzle file is
\* the sequence of its tokens.

Digits == <<"0", "1", "2", "3", "4", "5", "6", "7", "8", "9">>

IsDigit(ch) == \E d \in 1 .. 10 : Digits[d] = ch

DigitValue(ch) == (CHOOSE d \in 1 .. 10 : Digits[d] = ch) - 1

\* The width of the field fscanf reads, line 143.
FieldWidth == 15

\* fscanf(in, "%15s ", buf), once per pass of the loop: a token longer than
\* the field width is read as several fields.
RECURSIVE FieldsOfToken(_)
FieldsOfToken(t) ==
    IF Len(t) <= FieldWidth THEN <<t>>
    ELSE <<SubSeq(t, 1, FieldWidth)>> \o FieldsOfToken(SubSeq(t, FieldWidth + 1, Len(t)))

RECURSIVE Fields(_)
Fields(tokens) ==
    IF tokens = <<>> THEN <<>>
    ELSE FieldsOfToken(Head(tokens)) \o Fields(Tail(tokens))

\* The value of the decimal digits buf[from .. to], most significant first.
RECURSIVE DecimalValue(_, _, _)
DecimalValue(buf, from, to) ==
    IF to < from THEN 0
    ELSE 10 * DecimalValue(buf, from, to - 1) + DigitValue(buf[to])

\* sscanf(buf, "%d", &x): an optional sign and the longest run of digits after
\* it are converted; what follows them in buf is left unread.  count is the
\* value sscanf returns.  The digit runs of the files explored here denote
\* numbers an int holds, so that the conversion never overflows.
sscanf_d(buf) ==
    LET signed == Len(buf) >= 1 /\ buf[1] \in {"+", "-"}
        from   == IF signed THEN 2 ELSE 1
        to     == CHOOSE k \in (from - 1) .. Len(buf) :
                      /\ \A i \in from .. k : IsDigit(buf[i])
                      /\ k < Len(buf) => ~IsDigit(buf[k + 1])
        value  == DecimalValue(buf, from, to)
    IN  IF to < from THEN [count |-> 0, value |-> 0]
        ELSE [count |-> 1,
              value |-> IF signed /\ buf[1] = "-" THEN 0 - value ELSE value]

\* The test of the first field, lines 147-149, negated.
SizeAccepted(scanned) ==
    /\ scanned.count = 1
    /\ scanned.value >= 1
    /\ scanned.value <= kMaxPuzzleSize
    /\ IsSquare(scanned.value)

\* The value of a cell field, lines 159-163: count is 0 for a field that is
\* refused.
CellValue(n, buf) ==
    IF buf = <<".">> THEN [count |-> 1, value |-> 0]
    ELSE LET scanned == sscanf_d(buf)
         IN  IF scanned.count # 1 \/ scanned.value < 1 \/ scanned.value > n
             THEN [count |-> 0, value |-> 0]
             ELSE scanned

\* What read_puzzle returns and what it did: whether it succeeded, the puzzle
\* it filled, and whether it called init_puzzle and free_puzzle.
Refused(allocated) ==
    [ok |-> FALSE, size |-> 0, cells |-> <<>>, allocated |-> allocated,
     freed |-> allocated]

\* The passes of the loop after the size is read, lines 156-165, from field k
\* on; values are the cells written so far.
RECURSIVE ReadCells(_, _, _, _)
ReadCells(n, fields, k, values) ==
    IF k > Len(fields)
    THEN IF Len(values) = NumCells(n)
         THEN [ok |-> TRUE, size |-> n,
               cells |-> Table([i \in Cells(n) |-> values[i + 1]]),
               allocated |-> TRUE, freed |-> FALSE]
         ELSE Refused(TRUE)
    ELSE IF Len(values) >= NumCells(n) THEN Refused(TRUE)
    ELSE LET cell == CellValue(n, fields[k])
         IN  IF cell.count # 1 THEN Refused(TRUE)
             ELSE ReadCells(n, fields, k + 1, Append(values, cell.value))

read_puzzle(tokens) ==
    LET fields == Fields(tokens)
    IN  IF fields = <<>> THEN Refused(FALSE)
        ELSE LET scanned == sscanf_d(fields[1])
             IN  IF ~SizeAccepted(scanned) THEN Refused(FALSE)
                 ELSE ReadCells(scanned.value, fields, 2, <<>>)

\* The characters tokens are made of here.
Alphabet == {"0", "1", "4", "5", ".", "x", "-"}

\* The tokens of at most MaxTokenLen characters.
ShortTokens == UNION {[1 .. k -> Alphabet] : k \in 1 .. MaxTokenLen}

\* Side lengths beside those: squares and a non-square, within and above the
\* maximum.
LongSizeTokens ==
    {<<"9">>, <<"1", "6">>, <<"2", "5", "6">>, <<"2", "5", "7">>, <<"2", "8", "9">>}

\* A token of more characters than a field holds: the first token of f, filled
\* with zeros on the left to the width of a field, and the second token
\* written after it without whitespace.
Joined(f) ==
    LET zeros == [k \in 1 .. (FieldWidth - Len(f[1])) |-> "0"]
    IN  zeros \o f[1] \o f[2]

\* The file of a puzzle as the program's own format writes it.
TokenOf(v) == IF v = 0 THEN <<".">> ELSE <<Digits[v + 1]>>

FileOf(n, p) == <<TokenOf(n)>> \o [k \in 1 .. NumCells(n) |-> TokenOf(p[k - 1])]

\* The files explored: the file of the reference grid of each size, with one
\* token replaced, with one token more, or cut short; and the empty file.
FilesNear(f) ==
    {[f EXCEPT ![k] = t] : k \in 1 .. Len(f), t \in ShortTokens}
        \cup {[f EXCEPT ![1] = t] : t \in LongSizeTokens}
        \cup {Append(f, t) : t \in ShortTokens}
        \cup {SubSeq(f, 1, k) : k \in 0 .. Len(f)}
        \cup {<<Joined(f)>> \o SubSeq(f, 2, Len(f)),
              <<Joined(f)>> \o SubSeq(f, 3, Len(f))}

Files == UNION {FilesNear(FileOf(n, ReferenceGrid(n))) : n \in Sizes}

-----------------------------------------------------------------------------
(* The program state *)

VARIABLES
    pc,             \* where the caller is: "start", "rejected", "read", "search", "done",
                    \* "probed"
    size,           \* p->size
    cells,          \* p->cells, the caller's puzzle
    matrix,         \* the links and row counts of the DLX structure
    solution,       \* dlx_params.solution->cells
    num_solutions,  \* dlx_params.num_solutions
    reported,       \* the grids print_puzzle was given during this call, in order
    stack,          \* the active invocations of dlx_solve, innermost first
    last_return,    \* whether the invocation that returned last left the matrix as it found it
    history,        \* what each finished solve_puzzle call reported
    returned,       \* the cover and uncover calls the invocation that returned last made itself
    input,          \* the whitespace-separated tokens of the puzzle file
    parse,          \* what read_puzzle did with them
    solution_cells, \* the array dlx_params.solution->cells[0] points at: "p", the
                    \* caller's, or "solution", the one copy_puzzle allocated
    given           \* the caller's grid as it was when solve_puzzle was called

vars == <<pc, size, cells, matrix, solution, num_solutions, reported, stack,
          last_return, history, returned, input, parse, solution_cells, given>>

\* The variables of reading the puzzle file.
file == <<input, parse>>

\* What solve_puzzle sets once, before the search.
held == <<solution_cells, given>>

NoMatrix == [left |-> <<>>, right |-> <<>>, up |-> <<>>, down |-> <<>>,
             row_count |-> <<>>, fault |-> FALSE, log |-> <<>>]

\* copy_puzzle: a fresh array with the same values.
copy_puzzle(b) == b

\* A copy whose cells are the array of the puzzle copied.
SharedArray(a, b) == b

\* The array a->cells[0] points at after copy_puzzle(a, b), lines 109-111 and
\* 119: the one init_puzzle has just allocated for a.
AllocatedArray(a, b) == a

\* The grid the caller holds after a choice was written through
\* dlx_params.solution, lines 229-231: written is the grid written into.
CallerCells(array, p, written) == IF array = "p" THEN written ELSE p

Init ==
    /\ pc = "read"
    /\ size \in Sizes
    /\ cells \in PuzzlesOf[size]
    /\ matrix = NoMatrix
    /\ solution = <<>>
    /\ num_solutions = 0
    /\ reported = <<>>
    /\ stack = <<>>
    /\ last_return = "none"
    /\ history = <<>>
    /\ returned = <<>>
    /\ input = <<>>
    /\ parse = [ok |-> TRUE, allocated |-> TRUE, freed |-> FALSE]
    /\ solution_cells = "none"
    /\ given = <<>>

\* An invocation of dlx_solve on entry: entry is the matrix it was called on,
\* c and r its locals, first whether r is the first row it tries, calls the
\* cover_column and uncover_column calls it has made itself, in order.
EnterFrame(m) ==
    [at |-> "enter", c |-> Header, r |-> Header, first |-> FALSE, entry |-> m,
     calls |-> <<>>]

\* A count that is carried over from the call before.
InitialCountKept(count) == count

\* The initial value of dlx_params.num_solutions, line 342.
InitialCount(count) == 0

\* solve_puzzle up to its call of dlx_solve, lines 243-343.
SolvePuzzleCall ==
    /\ LET m == PreparedMatrix(size, cells)
       IN  /\ matrix' = m
           /\ stack' = <<EnterFrame(m)>>
    /\ solution' = copy_puzzle(cells)
    /\ solution_cells' = AllocatedArray("solution", "p")
    /\ given' = cells
    /\ num_solutions' = InitialCount(num_solutions)
    /\ reported' = <<>>
    /\ pc' = "search"
    /\ UNCHANGED <<size, cells, last_return, history, returned, file>>

\* main calls solve_puzzle on the puzzle read, line 405.
SolvePuzzle ==
    /\ pc = "read"
    /\ SolvePuzzleCall

-----------------------------------------------------------------------------
(* dlx_solve, lines 204-241 *)

\* A comparison under which the last column of minimum row_count wins.
BetterColumnOrEqual(row_count, min_row_count) == row_count <= min_row_count

\* if (row_count < min_row_count), line 221.
BetterColumn(row_count, min_row_count) == row_count < min_row_count

\* The scan of lines 219-225 from column j on; c and min are the best so far.
RECURSIVE ScanColumns(_, _, _, _, _, _)
ScanColumns(n, m, j, c, min, fuel) ==
    IF j = Header THEN c
    ELSE IF fuel = 0 \/ j \notin Columns(n) THEN Uninit
    ELSE IF BetterColumn(m.row_count[j], min)
         THEN ScanColumns(n, m, m.right[j], j, m.row_count[j], fuel - 1)
         ELSE ScanColumns(n, m, m.right[j], c, min, fuel - 1)

\* Lines 217-225: c starts as h, min_row_count as size + 1.
SelectColumn(n, m) == ScanColumns(n, m, m.right[Header], Header, n + 1, Fuel(n))

\* A search that does not write its choices into the solution grid.
RecordChoiceDropped(n, sol, r) == sol

\* A recording that writes the value at the cell with row and column exchanged.
RecordChoiceTransposed(n, sol, r) ==
    LET row_data == RowDataOf(n, r)
    IN  [sol EXCEPT ![row_data[2] * n + row_data[1]] = row_data[3]]

\* Lines 229-231: the choice of row object r is written into the solution grid.
RecordChoice(n, sol, r) ==
    LET row_data == RowDataOf(n, r)
    IN  [sol EXCEPT ![row_data[1] * n + row_data[2]] = row_data[3]]

Top == Head(stack)

Searching == pc = "search" /\ stack # <<>> /\ ~matrix.fault

\* Lines 206-215: the root links to no column; the solution grid is reported.
DlxReport ==
    /\ Searching
    /\ Top.at = "enter"
    /\ matrix.right[Header] = Header
    /\ reported' = Append(reported, solution)
    /\ num_solutions' = num_solutions + 1
    /\ stack' = Tail(stack)
    /\ last_return' = IF matrix = Top.entry THEN "restored" ELSE "changed"
    /\ returned' = Top.calls
    /\ UNCHANGED <<pc, size, cells, matrix, solution, history, file, held>>

\* Lines 217-227: a column is selected and covered; r is set to its first row.
DlxSelect ==
    /\ Searching
    /\ Top.at = "enter"
    /\ matrix.right[Header] # Header
    /\ LET c  == SelectColumn(size, matrix)
           m1 == cover_column(size, matrix, c)
       IN  /\ matrix' = Unlogged(m1)
           /\ stack' = <<[Top EXCEPT !.at = "loop", !.c = c, !.first = TRUE,
                                     !.r = IF m1.fault THEN c ELSE m1.down[c],
                                     !.calls = @ \o m1.log]>>
                       \o Tail(stack)
    /\ UNCHANGED <<pc, size, cells, solution, num_solutions, reported,
                   last_return, history, returned, file, held>>

\* Lines 227-235: row r is tried: its choice is recorded, its other columns are
\* covered, and dlx_solve calls itself.
DlxTryRow ==
    /\ Searching
    /\ Top.at = "loop"
    /\ Top.r # Top.c
    /\ Len(stack) < MaxDepth
    /\ IF Top.r \in RowObjects(size)
       THEN LET m1 == CoverRowColumns(size, matrix, Top.r, matrix.right[Top.r],
                                      Fuel(size))
            IN  /\ solution' = RecordChoice(size, solution, Top.r)
                /\ cells' = CallerCells(solution_cells, cells,
                                        RecordChoice(size, solution, Top.r))
                /\ matrix' = Unlogged(m1)
                /\ stack' = <<EnterFrame(Unlogged(m1)),
                              [Top EXCEPT !.at = "call", !.calls = @ \o m1.log]>>
                            \o Tail(stack)
       ELSE /\ matrix' = [matrix EXCEPT !.fault = TRUE]
            /\ UNCHANGED <<solution, cells, stack>>
    /\ UNCHANGED <<pc, size, num_solutions, reported, last_return, history,
                   returned, file, held>>

\* Lines 237-238 and the step r = r->down: the call has returned; the columns of
\* row r are uncovered in reverse.
DlxBacktrack ==
    /\ Searching
    /\ Top.at = "call"
    /\ LET m1 == UncoverRowColumns(size, matrix, Top.r, matrix.left[Top.r],
                                   Fuel(size))
       IN  /\ matrix' = Unlogged(m1)
           /\ stack' = <<[Top EXCEPT !.at = "loop", !.first = FALSE,
                                     !.r = IF m1.fault THEN Top.r ELSE m1.down[Top.r],
                                     !.calls = @ \o m1.log]>>
                       \o Tail(stack)
    /\ UNCHANGED <<pc, size, cells, solution, num_solutions, reported,
                   last_return, history, returned, file, held>>

\* Lines 227 and 240: r is back at c; c is uncovered and dlx_solve returns.
DlxReturn ==
    /\ Searching
    /\ Top.at = "loop"
    /\ Top.r = Top.c
    /\ LET m1 == uncover_column(size, matrix, Top.c)
       IN  /\ matrix' = Unlogged(m1)
           /\ last_return' = IF Unlogged(m1) = Top.entry THEN "restored" ELSE "changed"
           /\ returned' = Top.calls \o m1.log
    /\ stack' = Tail(stack)
    /\ UNCHANGED <<pc, size, cells, solution, num_solutions, reported, history, file, held>>

\* solve_puzzle after dlx_solve has returned, lines 345-353.
SolvePuzzleReturn ==
    /\ pc = "search"
    /\ stack = <<>>
    /\ ~matrix.fault
    /\ pc' = "done"
    /\ history' = Append(history, [reported |-> reported,
                                   num_solutions |-> num_solutions])
    /\ UNCHANGED <<size, cells, matrix, solution, num_solutions, reported, stack,
                   last_return, returned, file, held>>

Next ==
    \/ SolvePuzzle
    \/ DlxReport
    \/ DlxSelect
    \/ DlxTryRow
    \/ DlxBacktrack
    \/ DlxReturn
    \/ SolvePuzzleReturn

Spec == Init /\ [][Next]_vars

-----------------------------------------------------------------------------
(* A caller that solves the same puzzle again *)

\* solve_puzzle is called once more on the puzzle of the call that returned.
SolveAgain ==
    /\ pc = "done"
    /\ Len(history) < MaxCalls
    /\ SolvePuzzleCall

NextRepeat ==
    \/ Next
    \/ SolveAgain

SpecRepeat == Init /\ [][NextRepeat]_vars

-----------------------------------------------------------------------------
(* cover_column followed by uncover_column, on the matrix as built *)

\* The columns the scan of dlx_solve (lines 219-225) meets from column j on,
\* at most len of them, in scan order: the first half, then the rest.
RECURSIVE ColumnsFrom(_, _, _, _)
ColumnsFrom(n, m, j, len) ==
    IF j = Header \/ j \notin Columns(n) \/ len = 0 THEN <<>>
    ELSE IF len = 1 THEN <<j>>
    ELSE Then(ColumnsFrom(n, m, j, len \div 2),
              LAMBDA a :
                 IF Len(a) < len \div 2 THEN a
                 ELSE a \o ColumnsFrom(n, m, m.right[a[Len(a)]], len - len \div 2))

\* The columns linked from the root of m, in scan order.
LinkedColumns(n, m) == ColumnsFrom(n, m, m.right[Header], NumConstraints(n))

\* cover_column(c) and at once uncover_column(c), for any column c, on the
\* matrix solve_puzzle has built for the puzzle.
CoverUncover ==
    /\ pc = "search"
    /\ Len(stack) = 1
    /\ Top.at = "enter"
    /\ matrix = Top.entry
    /\ \E c \in Columns(size) :
          /\ matrix' = Unlogged(Then(cover_column(size, matrix, c),
                                     LAMBDA m1 : uncover_column(size, m1, c)))
          /\ stack' = <<[Top EXCEPT !.at = "probed", !.c = c]>>
    /\ pc' = "probed"
    /\ UNCHANGED <<size, cells, solution, num_solutions, reported, last_return,
                   history, returned, file, held>>

NextRoundTrip ==
    \/ SolvePuzzle
    \/ CoverUncover

SpecRoundTrip == Init /\ [][NextRoundTrip]_vars

-----------------------------------------------------------------------------
(* main from the puzzle file on, lines 396-405 *)

InitRead ==
    /\ pc = "start"
    /\ input \in Files
    /\ parse = [ok |-> FALSE, allocated |-> FALSE, freed |-> FALSE]
    /\ size = 0
    /\ cells = <<>>
    /\ matrix = NoMatrix
    /\ solution = <<>>
    /\ num_solutions = 0
    /\ reported = <<>>
    /\ stack = <<>>
    /\ last_return = "none"
    /\ history = <<>>
    /\ returned = <<>>
    /\ solution_cells = "none"
    /\ given = <<>>

\* main calls read_puzzle, and ends with fatal() when it fails, lines 400-404.
ReadPuzzle ==
    /\ pc = "start"
    /\ LET result == read_puzzle(input)
       IN  /\ parse' = [ok |-> result.ok, allocated |-> result.allocated,
                        freed |-> result.freed]
           /\ pc' = IF result.ok THEN "read" ELSE "rejected"
           /\ size' = result.size
           /\ cells' = result.cells
    /\ UNCHANGED <<input, matrix, solution, num_solutions, reported, stack,
                   last_return, history, returned, held>>

NextRead ==
    \/ ReadPuzzle
    \/ Next

SpecRead == InitRead /\ [][NextRead]_vars

-----------------------------------------------------------------------------
(* The properties checked *)

Range(f) == {f[x] : x \in DOMAIN f}

\* The four link fields of a matrix.
Links(m) == <<m.left, m.right, m.up, m.down>>

\* C1: every grid reported is a completed sudoku (no cell 0, each value once in
\* every row, column and block) and holds the input's value in every cell the
\* input filled.
C1_ReportedGridsAreValidCompletions ==
    \A k \in 1 .. Len(reported) :
        /\ IsCompletedSudoku(size, reported[k])
        /\ KeepsClues(size, cells, reported[k])

\* C2: when solve_puzzle's search has returned, the set of grids it reported is
\* the set of all valid completions of the input.
C2_ReportsExactlyTheCompletions ==
    pc = "done" => Range(reported) = ValidCompletions(size, cells)

\* C3: within one solve_puzzle call no two reports carry the same grid, and
\* num_solutions, counted from 0, is the number of reports made.
C3_EachCoverReportedOnce ==
    /\ Cardinality(Range(reported)) = Len(reported)
    /\ num_solutions = Len(reported)

\* C3, its case: a search that has returned after reporting several grids.
C3_SeveralReports ==
    pc = "done" /\ size = 4 /\ Len(reported) >= 3 /\ num_solutions >= 3

\* C4: every invocation of dlx_solve returns with every link and every
\* row_count of the matrix as it was on entry to that invocation.
C4_EveryInvocationRestores ==
    last_return # "changed"

\* C5: on the matrix built for a puzzle, cover_column(c) followed at once by
\* uncover_column(c) leaves every link and every row_count as before; read in
\* the claim's favour, for the columns c still linked from the root.
C5_CoverUncoverRestores ==
    (/\ pc = "probed"
     /\ Top.c \in Range(LinkedColumns(size, Top.entry)))
        => matrix = Top.entry

\* C6: for a puzzle in which two clues put one value twice into a row, a column
\* or a block, no grid is reported and num_solutions stays 0.
C6_ConflictingCluesReportNothing ==
    HasConflict(size, cells) => (reported = <<>> /\ num_solutions = 0)

\* The invocation just entered repeats an enclosing one for ever: it is called
\* on the links invocation a was called on; every invocation from a inwards is
\* in its first row; and the row_counts have moved since a's entry by amounts d
\* under which each of them selects its column again (d is lowest, and not
\* above 0, at the column selected).  Covering follows the links alone, so the
\* run from a's entry to here recurs from here, with the row_counts moved by d
\* once more each time, and no invocation returns.
NeverUnwinds ==
    /\ pc = "search"
    /\ stack # <<>>
    /\ Top.at = "enter"
    /\ \E a \in 2 .. Len(stack) :
          /\ Links(stack[a].entry) = Links(Top.entry)
          /\ \A k \in 2 .. a :
                /\ stack[k].at = "call"
                /\ stack[k].first
                /\ stack[k].c \in Columns(size)
                /\ LET d(j) == Top.entry.row_count[j] - stack[a].entry.row_count[j]
                   IN  /\ d(stack[k].c) <= 0
                       /\ \A j \in Range(LinkedColumns(size, stack[k].entry)) :
                              d(stack[k].c) <= d(j)

\* C7: the search terminates: no traversal loop runs on without meeting its
\* starting node, the recursion does not descend for ever, and for a puzzle
\* without a valid completion the search returns having reported nothing.
C7_SearchTerminates ==
    /\ ~matrix.fault
    /\ ~NeverUnwinds
    /\ (pc = "done" /\ ValidCompletions(size, cells) = {}) => reported = <<>>

\* C8: for a completely filled valid sudoku the root links to no column after
\* the clues are pre-covered, dlx_solve selects no column, and exactly one
\* grid is reported, which is the input.
C8_FullGridReportedOnce ==
    IsCompletedSudoku(size, cells) =>
        /\ pc \in {"search", "done"} =>
              /\ matrix.right[Header] = Header
              /\ \A k \in 1 .. Len(stack) : stack[k].at = "enter"
        /\ pc = "done" => (reported = <<cells>> /\ num_solutions = 1)

\* C8, its case: the search on a full valid 4 x 4 grid has returned.
C8_FullGridSolved ==
    pc = "done" /\ size = 4 /\ IsCompletedSudoku(size, cells) /\ num_solutions = 1

\* Column c is, of the columns linked from the root of m, the first in scan
\* order whose row_count is the minimum.
IsFirstMinimum(n, m, c) ==
    Then(LinkedColumns(n, m),
         LAMBDA cols :
            \E k \in 1 .. Len(cols) :
                /\ cols[k] = c
                /\ \A i \in 1 .. Len(cols) :
                      /\ m.row_count[c] <= m.row_count[cols[i]]
                      /\ i < k => m.row_count[c] < m.row_count[cols[i]])

\* C9: the column dlx_solve selects has the minimum row_count among the
\* columns linked from the root, and among several of that row_count it is the
\* one the scan from the root meets first.
C9_SelectsFirstMinimumColumn ==
    (pc = "search" /\ stack # <<>> /\ Top.at = "loop" /\ Top.first)
        => IsFirstMinimum(size, Top.entry, Top.c)

\* C9, its case: a column was selected while a later column tied with it.
C9_TieAtSelection ==
    /\ pc = "search" /\ stack # <<>> /\ Top.at = "loop" /\ Top.first
    /\ Then(LinkedColumns(size, Top.entry),
            LAMBDA cols :
                \E k, i \in 1 .. Len(cols) :
                    /\ k < i
                    /\ cols[k] = Top.c
                    /\ Top.entry.row_count[cols[i]] = Top.entry.row_count[Top.c])

\* C10: every solve_puzzle call on one puzzle reports the grids the first call
\* reported, in the same order, and returns the same count.
C10_RepeatedCallsAgree ==
    \A i \in 1 .. Len(history) : history[i] = history[1]

\* C10, its case: a second call has returned, on a puzzle with several reports.
C10_SecondCallReturned ==
    Len(history) = 2 /\ size = 4 /\ Len(history[2].reported) >= 3


-----------------------------------------------------------------------------
(* The puzzle file *)

\* A token that is a decimal integer literal: an optional sign, then digits
\* and nothing else.
IsIntegerLiteral(t) ==
    LET from == IF Len(t) >= 1 /\ t[1] \in {"+", "-"} THEN 2 ELSE 1
    IN  from <= Len(t) /\ \A i \in from .. Len(t) : IsDigit(t[i])

\* The number an integer literal denotes.
IntegerOf(t) ==
    LET signed == t[1] \in {"+", "-"}
        value  == DecimalValue(t, IF signed THEN 2 ELSE 1, Len(t))
    IN  IF t[1] = "-" THEN 0 - value ELSE value

IsPositiveSquare(x) == x >= 1 /\ \E k \in 1 .. x : k * k = x

\* C11: a file whose side length is an integer that is not a positive perfect
\* square, or that exceeds the maximum of 256, is rejected by read_puzzle
\* before any puzzle or matrix memory is allocated and before any search.
C11_BadSizeRejectedBeforeAllocation ==
    (/\ input # <<>>
     /\ IsIntegerLiteral(input[1])
     /\ \/ ~IsPositiveSquare(IntegerOf(input[1]))
        \/ IntegerOf(input[1]) > kMaxPuzzleSize)
        => /\ pc \in {"start", "rejected"}
           /\ ~parse.ok
           /\ ~parse.allocated
           /\ matrix = NoMatrix
           /\ stack = <<>>
           /\ history = <<>>

\* A file is well formed when it is a side length N, a positive perfect square
\* of at most the maximum, followed by exactly N * N tokens that are each an
\* integer literal in 1 .. N or a single '.'.
IsCellToken(n, t) ==
    \/ t = <<".">>
    \/ IsIntegerLiteral(t) /\ IntegerOf(t) \in 1 .. n

IsWellFormed(f) ==
    /\ f # <<>>
    /\ IsIntegerLiteral(f[1])
    /\ IsPositiveSquare(IntegerOf(f[1]))
    /\ IntegerOf(f[1]) <= kMaxPuzzleSize
    /\ Len(f) = 1 + IntegerOf(f[1]) * IntegerOf(f[1])
    /\ \A k \in 2 .. Len(f) : IsCellToken(IntegerOf(f[1]), f[k])

\* C12: read_puzzle succeeds exactly on the well-formed files, and then
\* leaves the side length and the cells in row-major order, 0 for '.'; on
\* every other file it fails with the cells it allocated freed.
C12_ReadSucceedsExactlyOnWellFormedFiles ==
    pc # "start"
        => /\ parse.ok <=> IsWellFormed(input)
           /\ parse.ok =>
                /\ size = IntegerOf(input[1])
                /\ DOMAIN cells = Cells(size)
                /\ \A i \in Cells(size) :
                       cells[i] = IF input[i + 2] = <<".">> THEN 0
                                  ELSE IntegerOf(input[i + 2])
           /\ ~parse.ok => (parse.allocated => parse.freed)


-----------------------------------------------------------------------------
(* The matrix during the search *)

\* The objects met walking down from j until the header c of the column is met,
\* len of them at most.
RECURSIVE ChainFrom(_, _, _, _, _)
ChainFrom(n, m, c, j, len) ==
    IF j = c \/ j \notin RowObjects(n) \/ len = 0 THEN <<>>
    ELSE <<j>> \o ChainFrom(n, m, c, m.down[j], len - 1)

\* The vertical chain of column c.  Only a damaged chain holds more than N
\* objects; the walk is then cut at N + 1 of them.
VerticalChain(n, m, c) == ChainFrom(n, m, c, m.down[c], n + 1)

\* C13: while the search runs, from the end of the clue loop on, the row_count
\* of each column equals the number of nodes in its vertical chain.
C13_RowCountIsChainLength ==
    (pc = "search" /\ ~matrix.fault)
        => \A c \in Columns(size) :
               matrix.row_count[c] = Len(VerticalChain(size, matrix, c))

\* The headers of the horizontal chain: the root and the columns linked from it.
LinkedHeaders(n, m) == {Header} \cup Range(LinkedColumns(n, m))

\* The horizontal chain of m is well formed: it closes at the root, its
\* neighbours point at each other, and its columns stand in build order.
HorizontalChainWellFormed(n, m) ==
    LET cols == LinkedColumns(n, m)
    IN  /\ \A x \in LinkedHeaders(n, m) :
               /\ m.right[x] \in LinkedHeaders(n, m)
               /\ m.left[x] \in LinkedHeaders(n, m)
               /\ m.left[m.right[x]] = x
               /\ m.right[m.left[x]] = x
        /\ \A k \in 1 .. (Len(cols) - 1) : cols[k] < cols[k + 1]

\* The vertical chain of a linked column c is well formed: it closes at c, its
\* neighbours point at each other, its nodes belong to c and stand in build
\* order.
VerticalChainWellFormed(n, m, c) ==
    LET chain == VerticalChain(n, m, c)
    IN  /\ Len(chain) <= n
        /\ \A x \in {c} \cup Range(chain) :
               /\ m.down[x] \in {c} \cup Range(chain)
               /\ m.up[x] \in {c} \cup Range(chain)
               /\ m.up[m.down[x]] = x
               /\ m.down[m.up[x]] = x
        /\ \A k \in 1 .. Len(chain) : ColumnOf(n, chain[k]) = c
        /\ \A k \in 1 .. (Len(chain) - 1) : chain[k] < chain[k + 1]

\* C14: at every entry to dlx_solve the live chains are well formed:
\* x.right.left = x and x.left.right = x for the root and every linked header,
\* x.down.up = x and x.up.down = x in every linked column, each chain in the
\* order of the build.
C14_ChainsWellFormedAtEntry ==
    (Searching /\ Top.at = "enter")
        => /\ HorizontalChainWellFormed(size, matrix)
           /\ \A c \in Range(LinkedColumns(size, matrix)) :
                  VerticalChainWellFormed(size, matrix, c)

\* The choice (cell i2, value v2) cannot stand beside the clue v in cell i.
ConflictsWithClue(n, i, v, i2, v2) ==
    \/ i2 = i /\ v2 # v
    \/ i2 \in PeersOf[n][i] /\ v2 = v

\* The cell of the choice a row object belongs to.
CellOfObject(n, o) == n * RowDataOf(n, o)[1] + RowDataOf(n, o)[2]

\* C15: after the clue loop, no choice row that conflicts with a clue is
\* reachable in the vertical chain of any column still linked from the root.
C15_NoConflictingRowAfterPreCover ==
    (Searching /\ Len(stack) = 1 /\ Top.at = "enter")
        => \A c \in Range(LinkedColumns(size, matrix)) :
               \A o \in Range(VerticalChain(size, matrix, c)) :
                   \A i \in Cells(size) :
                       cells[i] # 0 =>
                           ~ConflictsWithClue(size, i, cells[i],
                                              CellOfObject(size, o),
                                              RowDataOf(size, o)[3])

\* C20: the recursion of dlx_solve is never deeper than N * N invocations
\* below solve_puzzle's call.
C20_DepthAtMostNumCells ==
    pc = "search" => Len(stack) - 1 <= NumCells(size)


-----------------------------------------------------------------------------
(* What one call of cover_column writes *)

\* The headers that are not in the horizontal chain of m, and the row nodes
\* that are not in the vertical chain of their column.
RemovedHeaders(n, m) == Columns(n) \ Range(LinkedColumns(n, m))

RemovedNodes(n, m) ==
    {o \in RowObjects(n) : o \notin Range(VerticalChain(n, m, ColumnOf(n, o)))}

\* The invocation on top of the stack has just made its call cover_column(c):
\* the call took the matrix from Top.entry to matrix.
JustCovered == Searching /\ Top.at = "loop" /\ Top.first

\* C16: a call of cover_column changes no link field of an object that is
\* removed from its chain when the call is made: left and right of a header
\* out of the horizontal chain, up and down of a node out of its column's chain.
C16_RemovedObjectsKeepTheirLinks ==
    JustCovered
        => /\ \A o \in RemovedHeaders(size, Top.entry) :
                  /\ matrix.left[o] = Top.entry.left[o]
                  /\ matrix.right[o] = Top.entry.right[o]
           /\ \A o \in RemovedNodes(size, Top.entry) :
                  /\ matrix.up[o] = Top.entry.up[o]
                  /\ matrix.down[o] = Top.entry.down[o]


\* The nodes cover_column(c) removes from their columns, given the matrix b it
\* is called on: the other nodes of each row in the chain of c.
NodesRemovedByCover(n, b, c) ==
    UNION {{b.right[i], b.right[b.right[i]], b.right[b.right[b.right[i]]]} \ {i} :
               i \in Range(VerticalChain(n, b, c))}

\* C17: cover_column(c) leaves unchanged the left, right, up and down of c,
\* the up and down of the nodes in the chain of c, and the left and right of
\* every row node.  It changes only the right of c's left neighbour and the
\* left of c's right neighbour, the up and down of the vertical neighbours of
\* the nodes it removes, and the row_counts of those nodes' columns.
C17_CoverColumnFrame ==
    JustCovered =>
        LET b       == Top.entry
            c       == Top.c
            removed == NodesRemovedByCover(size, b, c)
        IN  /\ matrix.left[c] = b.left[c] /\ matrix.right[c] = b.right[c]
            /\ matrix.up[c] = b.up[c] /\ matrix.down[c] = b.down[c]
            /\ \A i \in Range(VerticalChain(size, b, c)) :
                   matrix.up[i] = b.up[i] /\ matrix.down[i] = b.down[i]
            /\ \A o \in RowObjects(size) :
                   matrix.left[o] = b.left[o] /\ matrix.right[o] = b.right[o]
            /\ \A o \in Objects(size) :
                   /\ matrix.left[o] # b.left[o] => o = b.right[c]
                   /\ matrix.right[o] # b.right[o] => o = b.left[c]
                   /\ matrix.up[o] # b.up[o] => o \in {b.down[j] : j \in removed}
                   /\ matrix.down[o] # b.down[o] => o \in {b.up[j] : j \in removed}
            /\ \A x \in Columns(size) :
                   matrix.row_count[x] # b.row_count[x]
                       => x \in {ColumnOf(size, j) : j \in removed}

\* A call of cover_column(c) that removed nodes, on a puzzle whose clues do not
\* conflict.
C17_CoverRemovedNodes ==
    /\ JustCovered
    /\ ~HasConflict(size, cells)
    /\ NodesRemovedByCover(size, Top.entry, Top.c) # {}
    /\ \E o \in Objects(size) : matrix.up[o] # Top.entry.up[o]
    /\ \E o \in Objects(size) : matrix.down[o] # Top.entry.down[o]
    /\ \E x \in Columns(size) : matrix.row_count[x] # Top.entry.row_count[x]


-----------------------------------------------------------------------------
(* The order of the calls one invocation of dlx_solve makes *)

\* The k-th object to the right of r in its row.
RECURSIVE NthRight(_, _, _)
NthRight(m, r, k) == IF k = 0 THEN r ELSE m.right[NthRight(m, r, k - 1)]

\* The columns of the other objects of row r, walking right from r.
ColumnsRightOf(n, m, r) ==
    [k \in 1 .. (RowLength - 1) |-> ColumnOf(n, NthRight(m, r, k))]

\* The calls seg are cover_column on the columns cols, in their order.
IsCovers(seg, cols) ==
    /\ Len(seg) = Len(cols)
    /\ \A k \in 1 .. Len(cols) : seg[k] = <<"cover", cols[k]>>

\* The calls seg are uncover_column on the columns cols, in reverse order.
IsUncoversReversed(seg, cols) ==
    /\ Len(seg) = Len(cols)
    /\ \A k \in 1 .. Len(cols) : seg[k] = <<"uncover", cols[Len(cols) + 1 - k]>>

\* The calls made for one row that was tried and left: covers, then the
\* uncovers of the same columns in exactly the reverse order.
IsMirroredRow(seg) ==
    LET h    == RowLength - 1
        cols == [k \in 1 .. h |-> seg[k][2]]
    IN  /\ Len(seg) = 2 * h
        /\ IsCovers(SubSeq(seg, 1, h), cols)
        /\ IsUncoversReversed(SubSeq(seg, h + 1, 2 * h), cols)

\* The calls body made after cover_column(c): a mirrored sequence for each row
\* left, and then rest calls for the row being tried.
IsRowsThenRest(body, rest) ==
    LET seglen == 2 * (RowLength - 1)
        rows   == (Len(body) - rest) \div seglen
    IN  /\ Len(body) >= rest
        /\ Len(body) = rows * seglen + rest
        /\ \A k \in 1 .. rows :
               IsMirroredRow(SubSeq(body, (k - 1) * seglen + 1, k * seglen))

\* The calls of an invocation that has not returned.
FrameCallsInOrder(n, m, f) ==
    IF f.at = "enter" THEN f.calls = <<>>
    ELSE /\ f.calls # <<>>
         /\ f.calls[1] = <<"cover", f.c>>
         /\ IF f.at = "loop" THEN IsRowsThenRest(Tail(f.calls), 0)
            ELSE /\ IsRowsThenRest(Tail(f.calls), RowLength - 1)
                 /\ IsCovers(SubSeq(f.calls, Len(f.calls) - RowLength + 2,
                                    Len(f.calls)),
                             ColumnsRightOf(n, m, f.r))

\* The calls of an invocation that has returned: none when it reported, and
\* else cover_column(c) first and uncover_column(c) last.
ReturnedCallsInOrder(calls) ==
    \/ calls = <<>>
    \/ /\ Len(calls) >= 2
       /\ calls[1][1] = "cover"
       /\ calls[Len(calls)] = <<"uncover", calls[1][2]>>
       /\ IsRowsThenRest(SubSeq(calls, 2, Len(calls) - 1), 0)

\* C18: for each row an invocation of dlx_solve tries, the columns it
\* uncovers are the columns it covered, walking right from r, in exactly the
\* reverse order; c is covered before all of them and uncovered after all.
C18_UncoverMirrorsCover ==
    (pc \in {"search", "done"} /\ ~matrix.fault)
        => /\ \A k \in 1 .. Len(stack) : FrameCallsInOrder(size, matrix, stack[k])
           /\ ReturnedCallsInOrder(returned)

\* An invocation that tried two rows has returned, on a puzzle whose clues do
\* not conflict.
C18_ReturnedAfterTwoRows ==
    /\ ~matrix.fault
    /\ ~HasConflict(size, cells)
    /\ Len(returned) = 2 + 4 * (RowLength - 1)


-----------------------------------------------------------------------------
(* The matrix as built *)

\* The block of cell (r, c): blocks are numbered row by row.
BlockIndex(n, r, c) == (r \div BlockSizeOf(n)) * BlockSizeOf(n) + (c \div BlockSizeOf(n))

\* The columns of the four constraints of the choice (r, c, v): the cell is
\* filled, row r holds v, column c holds v, the block holds v.
ConstraintColumns(n, r, c, v) ==
    << Header + 1 + n * r + c,
       Header + 1 + NumCells(n) + n * r + (v - 1),
       Header + 1 + 2 * NumCells(n) + n * c + (v - 1),
       Header + 1 + 3 * NumCells(n) + n * BlockIndex(n, r, c) + (v - 1) >>

\* The first object of the row of the choice (r, c, v): rows are made in the
\* order of r, then c, then v.
FirstObject(n, r, c, v) ==
    LastConstraint(n) + 1 + RowLength * ((r * n + c) * n + (v - 1))

\* The row of the choice (r, c, v) in matrix m: four nodes, linked in a circle
\* in the order row-column, row-value, column-value, block-value.
EncodesChoice(n, m, r, c, v) ==
    LET o == FirstObject(n, r, c, v)
    IN  \A k \in 0 .. (RowLength - 1) :
            /\ ColumnOf(n, o + k) = ConstraintColumns(n, r, c, v)[k + 1]
            /\ RowDataOf(n, o + k) = <<r, c, v>>
            /\ m.right[o + k] = o + ((k + 1) % RowLength)
            /\ m.left[o + k] = o + ((k + RowLength - 1) % RowLength)
            /\ o + k \in Range(VerticalChain(n, m, ColumnOf(n, o + k)))

\* Matrix m encodes the constraints of the puzzles of side n.
EncodesConstraints(n, m) ==
    /\ \A r \in 0 .. (n - 1), c \in 0 .. (n - 1), v \in 1 .. n :
           EncodesChoice(n, m, r, c, v)
    /\ RowObjects(n) =
           {FirstObject(n, r, c, v) + k :
                r \in 0 .. (n - 1), c \in 0 .. (n - 1), v \in 1 .. n,
                k \in 0 .. (RowLength - 1)}
    /\ LinkedColumns(n, m) = [k \in 1 .. (4 * NumCells(n)) |-> Header + k]
    /\ \A col \in Columns(n) :
           /\ Len(VerticalChain(n, m, col)) = n
           /\ m.row_count[col] = n
           /\ m.up[m.down[col]] = col

\* C19: the matrix solve_puzzle builds encodes the constraints: one row of
\* exactly four nodes for every (r, c, v), circularly linked in the order
\* row-column, row-value, column-value, block-value, and before the clue loop
\* each of the 4 * N * N columns holds exactly N nodes and has row_count N.
\* With no clue, it is the matrix dlx_solve is first called on.
C19_BuiltMatrixEncodesConstraints ==
    (pc = "search" /\ Len(stack) = 1 /\ Top.at = "enter")
        => /\ EncodesConstraints(size, BuiltMatrix(size))
           /\ cells = EmptyGrid(size) => matrix = BuiltMatrix(size)

\* The search for the grid of side 4 without clues has started.
C19_SearchOnBuiltMatrix ==
    /\ pc = "search"
    /\ size = MaxSize
    /\ cells = EmptyGrid(size)
    /\ Len(stack) = 1
    /\ Top.at = "enter"
    /\ matrix = BuiltMatrix(size)


-----------------------------------------------------------------------------
(* The grid at a report *)

\* The invocation on top of the stack is about to report: the root links to
\* no column, lines 206-215.
AtReport == Searching /\ Top.at = "enter" /\ matrix.right[Header] = Header

\* The invocations on the stack that wait for the call they made for their
\* row r to return, and have selected that row for cell i.  The stack has its
\* most recent invocation first.
SelectingFrames(i) ==
    {k \in 1 .. Len(stack) :
         /\ stack[k].at = "call"
         /\ stack[k].r \in RowObjects(size)
         /\ CellOfObject(size, stack[k].r) = i}

\* C21: at every report, each cell that was empty in the input holds the
\* value of the choice row selected for that cell on the recursion stack, the
\* most recent one if several invocations selected it, so that no value
\* written by an abandoned branch is reported.
C21_ReportedCellsAreSelectedChoices ==
    AtReport
        => \A i \in Cells(size) :
               cells[i] = 0
                   => /\ SelectingFrames(i) # {}
                      /\ \A k \in SelectingFrames(i) :
                             (\A j \in SelectingFrames(i) : k <= j)
                                 => RowDataOf(size, stack[k].r)[3] = solution[i]

\* A report is reached after a branch was abandoned that wrote into another
\* empty cell than the row now tried, and the value it wrote there is gone: an
\* invocation on the stack tries row r, the row above r in the chain of its
\* column was tried and left, and that row's cell holds another value.  The
\* clues of the puzzle do not conflict.
C21_ReportAfterBacktrack ==
    /\ AtReport
    /\ ~HasConflict(size, cells)
    /\ \E k \in 1 .. Len(stack) :
           LET left == matrix.up[stack[k].r]
           IN  /\ stack[k].at = "call"
               /\ left # stack[k].c
               /\ CellOfObject(size, left) # CellOfObject(size, stack[k].r)
               /\ cells[CellOfObject(size, left)] = 0
               /\ solution[CellOfObject(size, left)] # RowDataOf(size, left)[3]


-----------------------------------------------------------------------------
(* Column selection *)

\* The invocation on top of the stack is at the column selection: the root
\* links to at least one column, lines 217-226.
AtSelection == Searching /\ Top.at = "enter" /\ matrix.right[Header] # Header

\* C22: whenever dlx_solve reaches the column selection, every column linked
\* from the root has a row_count of at least 0 and at most N, and the column
\* selected is one of them and not the root, so that cover_column is never
\* applied to the root.
C22_SelectedColumnIsLinkedHeader ==
    /\ AtSelection
           => /\ \A c \in Range(LinkedColumns(size, matrix)) :
                     matrix.row_count[c] >= 0 /\ matrix.row_count[c] <= size
              /\ SelectColumn(size, matrix) \in Range(LinkedColumns(size, matrix))
              /\ SelectColumn(size, matrix) # Header
    /\ \A k \in 1 .. Len(stack) : stack[k].at # "enter" => stack[k].c # Header


-----------------------------------------------------------------------------
(* The caller's puzzle *)

\* C23: solve_puzzle never changes the caller's puzzle: during the search and
\* after solve_puzzle has returned, every cell of p has the value it had when
\* solve_puzzle was called.
C23_CallerPuzzleUnchanged ==
    pc \in {"search", "done"} => cells = given

\* solve_puzzle has returned after the search wrote choices into its grid:
\* the grid it leaves differs from the caller's, which has an empty cell.
C23_ReturnedAfterWriting ==
    /\ pc = "done"
    /\ \E i \in Cells(size) : cells[i] = 0 /\ solution[i] # 0

====
